---- MODULE Spec2Model ----
(***************************************************************************)
(* A model of sanctum_ai.client.SanctumClient (the Session) and of the     *)
(* round trips it makes through sanctum_ai.protocol.send / recv.           *)
(*                                                                         *)
(* One Session object is modelled.  Its four mutable fields are the        *)
(* variables _sock, _session_id, _req_id and _leases.  The environment is  *)
(* the table of socket objects the Session has created (socks), what was   *)
(* written on each of them (wire), and, for every round trip, the way the  *)
(* peer and the operating system answer it (a Reply, chosen by \E).        *)
(* Every public method is one action; the body of the method is an         *)
(* operator on a record m that bundles the Session fields with the         *)
(* environment, so that the nested calls (close -> release_lease -> _call) *)
(* are composed exactly as in the source.                                  *)
(***************************************************************************)
EXTENDS Naturals, Sequences, FiniteSets, TLC

VARIABLES
    _sock,        \* self._sock: NoSock, or the number of a socket object
    _session_id,  \* self._session_id: None, or a session identifier
    _req_id,      \* self._req_id: the request-id counter
    _leases,      \* self._leases: a Python list of lease ids
    socks,        \* the socket objects created so far and their status
    wire,         \* the request ids written on the newest socket object, in order
    last,         \* the most recent operation, its input and how it ended
    trace,        \* what the most recent operation did: _call entries, frames written, frames read
    codec,        \* protocol.py on its own: the input of one function and its output
    net           \* _call step by step: where each caller is, and the bytes on the connection

vars == <<_sock, _session_id, _req_id, _leases, socks, wire, last, trace, codec, net>>

-----------------------------------------------------------------------------
(* Bounds of the exploration *)

MaxSocks == 2     \* socket objects one behaviour creates (calls of connect)
MaxReq == 5       \* request ids one behaviour hands out
MaxLeases == 2    \* length of the lease list

-----------------------------------------------------------------------------
(* Values *)

None == "None"           \* Python None, for the session identifier
NoSock == 0               \* Python None, for self._sock
Absent == "absent"          \* a key a result mapping does not have

LeaseIds == {"L1", "L2"}
SessionIds == {"s1", "s2"}
SockIds == 1..MaxSocks

\* How one round trip on a socket can end, as the peer and the OS decide:
\*   result        a response without an error field
\*   error         a response with an error field
\*   eof           the request is written, the read hits end of stream
\*   send_oserror  sock.sendall raises OSError (EPIPE, ECONNRESET, timeout)
\*   recv_oserror  the request is written, sock.recv raises OSError
ReplyKinds == {"result", "error", "eof", "send_oserror", "recv_oserror"}

EmptyResult ==
    [session_id |-> Absent, challenge |-> Absent, authenticated |-> Absent,
     lease_id |-> Absent, value |-> Absent]

Failure(k) == [kind |-> k, result |-> EmptyResult]
Failures == {Failure(k) : k \in ReplyKinds \ {"result"}}
Result(r) == [kind |-> "result", result |-> r]

\* The replies a server can give to each method (result mappings are JSON
\* objects: any key may be missing).
AuthenticateReplies ==
    Failures
    \cup {Result([EmptyResult EXCEPT !.session_id = s, !.challenge = "hex"]) : s \in SessionIds}
    \cup {Result([EmptyResult EXCEPT !.challenge = "hex"]),
          Result([EmptyResult EXCEPT !.session_id = "s1"])}

ChallengeReplies ==
    Failures
    \cup {Result([EmptyResult EXCEPT !.authenticated = a]) : a \in {"true", "false", Absent}}

RetrieveReplies ==
    Failures
    \cup {Result([EmptyResult EXCEPT !.lease_id = l, !.value = "hex"]) :
            l \in LeaseIds \cup {Absent}}
    \cup {Result([EmptyResult EXCEPT !.lease_id = "L1", !.value = "nothex"])}

\* list, use and release_lease read nothing of the result that changes the
\* Session; a lease_id key in it is the one thing that could matter.
PlainReplies ==
    Failures
    \cup {Result([EmptyResult EXCEPT !.lease_id = l]) : l \in {"L1", Absent}}

ReleaseReplies == Failures \cup {Result(EmptyResult)}

\* The outcome of SanctumClient._resolve_key: a key, AuthError (wrong
\* length), or an OSError from open().
KeyOutcomes == {"key", "AuthError", "OSError"}

-----------------------------------------------------------------------------
(* Exceptions *)

\* The exceptions a release_lease can raise that `except VaultError` catches:
\* VaultError("Not connected"), VaultError("Connection closed") and what
\* raise_on_error raises for an error response (VaultError, or the class
\* CODE_TO_EXCEPTION gives, taken to derive from VaultError).  OSError,
\* KeyError and ValueError are not VaultErrors.
IsVaultError(e) == e \in {"NotConnected", "ConnectionClosed", "ServerError"}

\* Python truthiness of r.get("authenticated")
Truthy(v) == v \notin {Absent, "false"}

-----------------------------------------------------------------------------
(* The Session fields and the environment as one value *)

Bundle == [sock |-> _sock, session_id |-> _session_id, req_id |-> _req_id,
           leases |-> _leases, socks |-> socks, wire |-> wire]

\* A socket the local side has not closed
Held(status) == status \in {"unconnected", "open", "broken"}

\* the reply of a round trip that is never made
Unread == Failure("send_oserror")

\* A reply the environment can give to a round trip of m: none is made
\* without a connected socket, and once the peer is gone no response
\* arrives any more.
Feasible(m, reply) ==
    IF m.sock = NoSock THEN reply = Unread
    ELSE CASE m.socks[m.sock] = "open" -> TRUE
           [] m.socks[m.sock] = "broken" -> reply.kind \notin {"result", "error"}
           [] OTHER -> reply = Unread

\* One entry of trace.  ev is "open" or "close" (of a socket), "call" (_call
\* is entered), "send" (a request frame is written: its id, method and the
\* session_id or lease_id parameter) or "recv" (a response frame is read: arg
\* is the reply kind, result its result mapping).
Event(ev, sock, id, method, arg, result) ==
    [ev |-> ev, sock |-> sock, id |-> id, method |-> method, arg |-> arg,
     result |-> result]

Outcome(m, raised, result, tr, feasible) ==
    [m |-> m, raised |-> raised, result |-> result, trace |-> tr, feasible |-> feasible]

-----------------------------------------------------------------------------
(* Python list helpers *)

Contains(seq, x) == \E i \in 1..Len(seq) : seq[i] = x

Count(seq, x) == Cardinality({i \in 1..Len(seq) : seq[i] = x})

\* list.remove(x): removes the first occurrence of x (x is in the list)
Remove(seq, x) ==
    LET i == CHOOSE k \in 1..Len(seq) :
                 seq[k] = x /\ \A j \in 1..(k - 1) : seq[j] # x
    IN SubSeq(seq, 1, i - 1) \o SubSeq(seq, i + 1, Len(seq))

-----------------------------------------------------------------------------
(* RPC: client.py 110-120, protocol.py 16-27 and 68-75 *)

\* a counter that is read but not advanced
_next_id_stuck(m) == m

_next_id(m) == [m EXCEPT !.req_id = m.req_id + 1]

\* One _call.  The request dict, and with it the id, is built before send is
\* entered, so an id is consumed whenever the socket is not None.
_call(m, method, arg, reply) ==
    LET entry == Event("call", m.sock, 0, method, arg, EmptyResult)
        ok == Feasible(m, reply)
    IN
    IF m.sock = NoSock
    THEN Outcome(m, "NotConnected", EmptyResult, <<entry>>, ok)
    ELSE
        LET s == m.sock
            status == m.socks[s]
            m1 == _next_id(m)
            id == m1.req_id
            written == [m1 EXCEPT !.wire = Append(@, id)]
            sendEv == Event("send", s, id, method, arg, EmptyResult)
            recvEv == Event("recv", s, id, method, reply.kind, reply.result)
        IN
        IF status = "unconnected"
        THEN \* sendall on a socket that never connected: OSError (ENOTCONN / EPIPE)
             Outcome(m1, "OSError", EmptyResult, <<entry>>, ok)
        ELSE IF reply.kind = "send_oserror"
        THEN Outcome([m1 EXCEPT !.socks[s] = "broken"], "OSError", EmptyResult,
                     <<entry>>, ok)
        ELSE IF reply.kind = "recv_oserror"
        THEN Outcome([written EXCEPT !.socks[s] = "broken"], "OSError", EmptyResult,
                     <<entry, sendEv>>, ok)
        ELSE IF reply.kind = "eof"
        THEN \* _read_exact: VaultError("Connection closed")
             Outcome([written EXCEPT !.socks[s] = "broken"], "ConnectionClosed",
                     EmptyResult, <<entry, sendEv>>, ok)
        ELSE IF reply.kind = "error"
        THEN \* raise_on_error raises
             Outcome(written, "ServerError", EmptyResult, <<entry, sendEv, recvEv>>, ok)
        ELSE Outcome(written, "none", reply.result, <<entry, sendEv, recvEv>>, ok)

-----------------------------------------------------------------------------
(* Operations: client.py 172-227 *)

\* the part of retrieve and retrieve_raw they share: the call and the append
retrieve_raw(m, reply) ==
    LET c == _call(m, "retrieve", m.session_id, reply) IN
    IF c.raised # "none" THEN c
    ELSE IF c.result.lease_id = Absent
    THEN [c EXCEPT !.raised = "KeyError"]
    ELSE [c EXCEPT !.m.leases = Append(@, c.result.lease_id)]

\* retrieve decodes the value after the lease id is recorded
retrieve(m, reply) ==
    LET c == retrieve_raw(m, reply) IN
    IF c.raised # "none" THEN c
    ELSE IF c.result.value # "hex"
    THEN [c EXCEPT !.raised = "ValueError"]
    ELSE c

list(m, reply) == _call(m, "list", m.session_id, reply)

\* use written like retrieve_raw: a lease_id of the result is recorded
use_tracking(m, reply) ==
    LET c == _call(m, "use", m.session_id, reply) IN
    IF c.raised = "none" /\ c.result.lease_id # Absent
    THEN [c EXCEPT !.m.leases = Append(@, c.result.lease_id)]
    ELSE c

use(m, reply) == _call(m, "use", m.session_id, reply)

\* release_lease that forgets the lease before it asks the server
release_lease_eager(m, lease_id, reply) ==
    LET c == _call(m, "release_lease", lease_id, reply) IN
    IF Contains(c.m.leases, lease_id)
    THEN [c EXCEPT !.m.leases = Remove(@, lease_id)]
    ELSE c

release_lease(m, lease_id, reply) ==
    LET c == _call(m, "release_lease", lease_id, reply) IN
    IF c.raised # "none" THEN c
    ELSE IF Contains(c.m.leases, lease_id)
    THEN [c EXCEPT !.m.leases = Remove(@, lease_id)]
    ELSE c

-----------------------------------------------------------------------------
(* Lifecycle: client.py 55-99 and 157-168 *)

\* a handshake that does not look at the authenticated field
_authenticate_unchecked(m, key, r1, r2) ==
    IF key # "key"
    THEN Outcome(m, key, EmptyResult, <<>>, TRUE)
    ELSE
        LET c1 == _call(m, "authenticate", "agent_name", r1) IN
        IF c1.raised # "none" THEN c1
        ELSE IF c1.result.session_id = Absent \/ c1.result.challenge = Absent
        THEN [c1 EXCEPT !.raised = "KeyError"]
        ELSE
            LET m2 == [c1.m EXCEPT !.session_id = c1.result.session_id]
                c2 == _call(m2, "challenge_response", m2.session_id, r2)
            IN [c2 EXCEPT !.trace = c1.trace \o c2.trace,
                          !.feasible = c1.feasible /\ c2.feasible]

_authenticate(m, key, r1, r2) ==
    IF key # "key"
    THEN Outcome(m, key, EmptyResult, <<>>, TRUE)    \* _resolve_key raised
    ELSE
        LET c1 == _call(m, "authenticate", "agent_name", r1) IN
        IF c1.raised # "none" THEN c1
        ELSE IF c1.result.session_id = Absent
        THEN [c1 EXCEPT !.raised = "KeyError"]
        ELSE
            LET m2 == [c1.m EXCEPT !.session_id = c1.result.session_id] IN
            IF c1.result.challenge = Absent
            THEN [c1 EXCEPT !.m = m2, !.raised = "KeyError"]
            ELSE
                LET c2 == _call(m2, "challenge_response", m2.session_id, r2)
                    both == [c2 EXCEPT !.trace = c1.trace \o c2.trace,
                                       !.feasible = c1.feasible /\ c2.feasible]
                IN
                IF c2.raised # "none" THEN both
                ELSE IF ~Truthy(c2.result.authenticated)
                THEN [both EXCEPT !.raised = "AuthError"]
                ELSE both

Created(m) == {n \in SockIds : m.socks[n] # "unused"}

\* connect: a new socket object is assigned to _sock before it is connected;
\* connected tells whether socket.connect succeeded.
connect(m, connected, key, r1, r2) ==
    LET n == Cardinality(Created(m)) + 1
        made == [m EXCEPT !.sock = n, !.socks[n] = "unconnected", !.wire = <<>>]
        opened == [made EXCEPT !.socks[n] = "open"]
    IN
    IF ~connected
    THEN Outcome(made, "OSError", EmptyResult, <<>>, TRUE)
    ELSE LET a == _authenticate(opened, key, r1, r2) IN
         [a EXCEPT !.trace = <<Event("open", n, 0, "", "", EmptyResult)>> \o a.trace]

\* the loop of close over list(self._leases), from position i on
RECURSIVE drain(_, _, _, _, _, _)
drain(m, snapshot, replies, i, tr, feasible) ==
    IF i > Len(snapshot)
    THEN Outcome(m, "none", EmptyResult, tr, feasible)
    ELSE
        LET r == release_lease(m, snapshot[i], replies[i]) IN
        IF r.raised = "none" \/ IsVaultError(r.raised)
        THEN drain(r.m, snapshot, replies, i + 1, tr \o r.trace, feasible /\ r.feasible)
        ELSE \* not a VaultError: it leaves the loop and close
             Outcome(r.m, r.raised, EmptyResult, tr \o r.trace, feasible /\ r.feasible)

close(m, replies) ==
    LET d == drain(m, m.leases, replies, 1, <<>>, TRUE) IN
    IF d.raised # "none" THEN d
    ELSE
        LET s == d.m.sock
            shut == IF s # NoSock
                    THEN [d.m EXCEPT !.socks[s] = "closed", !.sock = NoSock]
                    ELSE d.m
            evs == IF s # NoSock THEN <<Event("close", s, 0, "", "", EmptyResult)>> ELSE <<>>
        IN [d EXCEPT !.m = [shut EXCEPT !.session_id = None], !.trace = d.trace \o evs]

-----------------------------------------------------------------------------
(* The state machine *)

\* protocol.py is not being exercised on its own
CodecIdle == [fn |-> "idle"]

\* a Session as __init__ leaves it
Constructed ==
    /\ _sock = NoSock
    /\ _session_id = None
    /\ _req_id = 0
    /\ _leases = <<>>
    /\ socks = [n \in SockIds |-> "unused"]
    /\ wire = <<>>
    /\ last = [op |-> "__init__", arg |-> None, raised |-> "none", result |-> EmptyResult]
    /\ trace = <<>>

\* no _call is looked at step by step
NetIdle == [on |-> FALSE]

Init ==
    /\ Constructed
    /\ codec = CodecIdle
    /\ net = NetIdle

\* the operation op with input arg ended as the outcome o says
Becomes(op, arg, o) ==
    /\ o.feasible
    /\ _sock' = o.m.sock
    /\ _session_id' = o.m.session_id
    /\ _req_id' = o.m.req_id
    /\ _leases' = o.m.leases
    /\ socks' = o.m.socks
    /\ wire' = o.m.wire
    /\ last' = [op |-> op, arg |-> arg, raised |-> o.raised, result |-> o.result]
    /\ trace' = o.trace
    /\ UNCHANGED <<codec, net>>

\* room for k more request ids
Room(k) == _sock = NoSock \/ _req_id + k <= MaxReq

\* an authenticate reply after which challenge_response is sent
AnswersChallenge(r1) ==
    /\ r1.kind = "result"
    /\ r1.result.session_id # Absent
    /\ r1.result.challenge # Absent

Connect ==
    /\ Cardinality(Created(Bundle)) < MaxSocks
    /\ _req_id + 2 <= MaxReq
    /\ \/ Becomes("connect", None, connect(Bundle, FALSE, "key", Unread, Unread))
       \/ \E key \in KeyOutcomes \ {"key"} :
             Becomes("connect", None, connect(Bundle, TRUE, key, Unread, Unread))
       \/ \E r1 \in AuthenticateReplies, r2 \in ChallengeReplies :
             /\ AnswersChallenge(r1) \/ r2 = Unread
             /\ Becomes("connect", None, connect(Bundle, TRUE, "key", r1, r2))

Close ==
    /\ Room(Len(_leases))
    /\ \E replies \in [1..Len(_leases) -> ReleaseReplies] :
          Becomes("close", None, close(Bundle, replies))

Retrieve ==
    /\ Room(1)
    /\ Len(_leases) < MaxLeases
    /\ \E reply \in RetrieveReplies : Becomes("retrieve", None, retrieve(Bundle, reply))

RetrieveRaw ==
    /\ Room(1)
    /\ Len(_leases) < MaxLeases
    /\ \E reply \in RetrieveReplies :
          Becomes("retrieve_raw", None, retrieve_raw(Bundle, reply))

List ==
    /\ Room(1)
    /\ \E reply \in PlainReplies : Becomes("list", None, list(Bundle, reply))

Use ==
    /\ Room(1)
    /\ \E reply \in PlainReplies : Becomes("use", None, use(Bundle, reply))

ReleaseLease ==
    /\ Room(1)
    /\ \E lease_id \in LeaseIds, reply \in ReleaseReplies :
          Becomes("release_lease", lease_id, release_lease(Bundle, lease_id, reply))

Next == Connect \/ Close \/ Retrieve \/ RetrieveRaw \/ List \/ Use \/ ReleaseLease

Spec == Init /\ [][Next]_vars

-----------------------------------------------------------------------------
(* Bytes: protocol.py works on bytes objects.  A bytes object is written  *)
(* as its first bytes (head), then pad space characters, then its last      *)
(* bytes (tail), so that a body of several MiB can be written down.  With   *)
(* no space characters in the middle all bytes are in head.                 *)

MAX_MESSAGE_SIZE == 4 * 1024 * 1024

Bytes(head) == [head |-> head, pad |-> 0, tail |-> <<>>]

\* b" " * n
Spaces(n) == [head |-> <<>>, pad |-> n, tail |-> <<>>]

Norm(b) == IF b.pad = 0 THEN Bytes(b.head \o b.tail) ELSE b

Min(a, b) == IF a < b THEN a ELSE b
Max(a, b) == IF a > b THEN a ELSE b

\* len(b)
BLen(b) == Len(b.head) + b.pad + Len(b.tail)

\* b[i:j] for 0 <= i <= j
Slice(b, i, j) ==
    LET hi == Min(j, BLen(b))
        lo == Min(i, hi)
        n == Len(b.head)
        k == n + b.pad
    IN Norm([head |-> SubSeq(b.head, lo + 1, Min(hi, n)),
             pad |-> Max(Min(hi, k), n) - Min(Max(lo, n), k),
             tail |-> SubSeq(b.tail, Max(lo, k) - k + 1, hi - k)])

\* x + y (at most one of the two has space characters in the middle, or the
\* space characters of both meet)
Concat(x, y) ==
    IF y.pad = 0 THEN Norm([x EXCEPT !.tail = @ \o y.head])
    ELSE IF x.pad = 0 THEN [y EXCEPT !.head = x.head \o @]
    ELSE [x EXCEPT !.pad = @ + y.pad, !.tail = y.tail]

\* the bytes of b one by one (b is short)
Octets(b) == b.head \o [i \in 1..b.pad |-> 32] \o b.tail

\* struct.pack(">I", n), n < 2^31
pack(n) ==
    <<n \div 16777216, (n \div 65536) % 256, (n \div 256) % 256, n % 256>>

\* struct.unpack(">I", h)[0] for four bytes h
unpack(h) == h[1] * 16777216 + h[2] * 65536 + h[3] * 256 + h[4]

-----------------------------------------------------------------------------
(* JSON: json.dumps(obj, separators=(",", ":")).encode() and json.loads,   *)
(* for integers, strings without escapes, and objects.                      *)

JInt(n) == [t |-> "int", n |-> n, s |-> <<>>, items |-> <<>>]
JStr(s) == [t |-> "str", n |-> 0, s |-> s, items |-> <<>>]
JObj(items) == [t |-> "obj", n |-> 0, s |-> <<>>, items |-> items]
Item(k, v) == [k |-> k, v |-> v]

\* no value: the function raised
Nothing == [t |-> "nothing", n |-> 0, s |-> <<>>, items |-> <<>>]

IsDigit(c) == c >= 48 /\ c <= 57

RECURSIVE Digits(_)
Digits(n) == IF n < 10 THEN <<48 + n>> ELSE Digits(n \div 10) \o <<48 + (n % 10)>>

RECURSIVE dumps(_)
RECURSIVE dumps_items(_)
dumps_items(items) ==
    IF items = <<>> THEN <<>>
    ELSE <<34>> \o Head(items).k \o <<34, 58>> \o dumps(Head(items).v)
         \o (IF Len(items) > 1 THEN <<44>> ELSE <<>>)
         \o dumps_items(Tail(items))

dumps(v) ==
    CASE v.t = "int" -> Digits(v.n)
      [] v.t = "str" -> <<34>> \o v.s \o <<34>>
      [] OTHER -> <<123>> \o dumps_items(v.items) \o <<125>>

\* the result of scanning a value: where the scan stopped, or that it failed
Parsed(v, next) == [ok |-> TRUE, v |-> v, next |-> next]
ParseError == [ok |-> FALSE, v |-> Nothing, next |-> 0]

RECURSIVE ScanDigits(_, _, _)
ScanDigits(h, i, acc) ==
    IF i <= Len(h) /\ IsDigit(h[i])
    THEN ScanDigits(h, i + 1, acc * 10 + (h[i] - 48))
    ELSE Parsed(JInt(acc), i)

\* a number: 0, or digits that do not start with 0
ParseInt(h, i) ==
    IF h[i] = 48 THEN Parsed(JInt(0), i + 1) ELSE ScanDigits(h, i, 0)

RECURSIVE ScanString(_, _, _)
ScanString(h, i, acc) ==
    IF i > Len(h) THEN ParseError
    ELSE IF h[i] = 34 THEN Parsed(JStr(acc), i + 1)
    ELSE IF h[i] < 32 \/ h[i] = 92 THEN ParseError
    ELSE ScanString(h, i + 1, Append(acc, h[i]))

ParseScalar(h, i) ==
    IF i > Len(h) THEN ParseError
    ELSE IF h[i] = 34 THEN ScanString(h, i + 1, <<>>)
    ELSE IF IsDigit(h[i]) THEN ParseInt(h, i)
    ELSE ParseError

\* dict[k] = v: a key that is there keeps its place
Put(items, k, v) ==
    IF \E j \in 1..Len(items) : items[j].k = k
    THEN [j \in 1..Len(items) |-> IF items[j].k = k THEN Item(k, v) ELSE items[j]]
    ELSE Append(items, Item(k, v))

\* the members of an object, from the quote of a key at i on
RECURSIVE ScanMembers(_, _, _)
RECURSIVE ParseValue(_, _)
ScanMembers(h, i, items) ==
    LET k == ParseScalar(h, i) IN
    IF ~k.ok \/ k.v.t # "str" \/ k.next > Len(h) \/ h[k.next] # 58 THEN ParseError
    ELSE
        LET v == ParseValue(h, k.next + 1) IN
        IF ~v.ok \/ v.next > Len(h) THEN ParseError
        ELSE IF h[v.next] = 125 THEN Parsed(JObj(Put(items, k.v.s, v.v)), v.next + 1)
        ELSE IF h[v.next] = 44 THEN ScanMembers(h, v.next + 1, Put(items, k.v.s, v.v))
        ELSE ParseError

ParseValue(h, i) ==
    IF i > Len(h) THEN ParseError
    ELSE IF h[i] = 123
    THEN IF i + 1 <= Len(h) /\ h[i + 1] = 125
         THEN Parsed(JObj(<<>>), i + 2)
         ELSE ScanMembers(h, i + 1, <<>>)
    ELSE ParseScalar(h, i)

\* json.loads(b): one value, then nothing but white space (a value does not
\* end before the last bytes of b when bytes follow the white space)
loads(b) ==
    LET r == ParseValue(b.head, 1) IN
    IF b.tail = <<>> /\ r.ok /\ r.next = Len(b.head) + 1 THEN r ELSE ParseError

\* == of two parsed values (dicts compare without regard to order)
JEq(x, y) ==
    /\ x.t = y.t
    /\ x.n = y.n
    /\ x.s = y.s
    /\ {x.items[j] : j \in 1..Len(x.items)} = {y.items[j] : j \in 1..Len(y.items)}

-----------------------------------------------------------------------------
(* Frames: protocol.py 22-27 and 51-75 *)

Decoded(raised, obj, rest, body) ==
    [raised |-> raised, obj |-> obj, rest |-> rest, body |-> body]

NoBytes == Bytes(<<>>)

encode_frame(obj) ==
    LET payload == dumps(obj) IN Bytes(pack(Len(payload)) \o payload)

decode_frame_unskipped(data) ==
    IF BLen(data) < 4
    THEN Decoded("IncompleteHeader", Nothing, NoBytes, 0)
    ELSE
        LET length == unpack(Octets(Slice(data, 0, 4))) IN
        IF BLen(data) < 4 + length
        THEN Decoded("IncompleteBody", Nothing, NoBytes, 0)
        ELSE
            LET obj == loads(Slice(data, 4, 4 + length)) IN
            IF ~obj.ok
            THEN Decoded("JSONDecodeError", Nothing, NoBytes, length)
            ELSE Decoded("none", obj.v, Slice(data, length, BLen(data)), length)

decode_frame_lenient(data) ==
    IF BLen(data) < 4
    THEN Decoded("IncompleteHeader", Nothing, NoBytes, 0)
    ELSE
        LET length == unpack(Octets(Slice(data, 0, 4))) IN
        IF BLen(data) < length
        THEN Decoded("IncompleteBody", Nothing, NoBytes, 0)
        ELSE
            LET obj == loads(Slice(data, 4, 4 + length)) IN
            IF ~obj.ok
            THEN Decoded("JSONDecodeError", Nothing, NoBytes, length)
            ELSE Decoded("none", obj.v, Slice(data, 4 + length, BLen(data)), length)

\* body is the number of bytes handed to json.loads
decode_frame(data) ==
    IF BLen(data) < 4
    THEN Decoded("IncompleteHeader", Nothing, NoBytes, 0)
    ELSE
        LET length == unpack(Octets(Slice(data, 0, 4))) IN
        IF BLen(data) < 4 + length
        THEN Decoded("IncompleteBody", Nothing, NoBytes, 0)
        ELSE
            LET obj == loads(Slice(data, 4, 4 + length)) IN
            IF ~obj.ok
            THEN Decoded("JSONDecodeError", Nothing, NoBytes, length)
            ELSE Decoded("none", obj.v, Slice(data, 4 + length, BLen(data)), length)

\* send that writes the frame twice
send_twice(requests, obj) == Append(Append(requests, obj), obj)

\* send(sock, obj): one frame, which the peer reads after those sent before
send(requests, obj) == Append(requests, obj)

\* _read_exact(sock, n) on a stream of which `stream` is all that arrives
\* before the peer closes: the n bytes, or VaultError("Connection closed")
_read_exact(stream, n) ==
    IF BLen(stream) < n
    THEN [raised |-> "ConnectionClosed", bytes |-> NoBytes, rest |-> NoBytes]
    ELSE [raised |-> "none", bytes |-> Slice(stream, 0, n),
          rest |-> Slice(stream, n, BLen(stream))]

\* recv(sock); rest is what is left unread on the stream, body the number
\* of body bytes read
recv(stream) ==
    LET h == _read_exact(stream, 4) IN
    IF h.raised # "none" THEN Decoded(h.raised, JInt(0), h.rest, 0)
    ELSE
        LET length == unpack(Octets(h.bytes)) IN
        IF length > MAX_MESSAGE_SIZE
        THEN Decoded("TooLarge", Nothing, h.rest, 0)
        ELSE
            LET b == _read_exact(h.rest, length) IN
            IF b.raised # "none" THEN Decoded(b.raised, JInt(0), b.rest, BLen(h.rest))
            ELSE
                LET obj == loads(b.bytes) IN
                IF ~obj.ok THEN Decoded("JSONDecodeError", Nothing, b.rest, length)
                ELSE Decoded("none", obj.v, b.rest, length)

-----------------------------------------------------------------------------
(* Responses: protocol.py 30-48 and the end of _call, client.py 119-120 *)

\* what raise_on_error did: the exception it raised, or nothing
Raised(cls, message, code, detail, suggestion, docs_url, context) ==
    [cls |-> cls, message |-> message, code |-> code, detail |-> detail,
     suggestion |-> suggestion, docs_url |-> docs_url, context |-> context]

NotRaised == Raised("none", Absent, Absent, Absent, Absent, Absent, Absent)

\* the error codes that have an exception class of their own
CODE_TO_EXCEPTION ==
    [c \in {"AUTH_FAILED", "ACCESS_DENIED", "CREDENTIAL_NOT_FOUND", "VAULT_LOCKED",
            "LEASE_EXPIRED", "RATE_LIMITED", "SESSION_EXPIRED"} |->
        CASE c = "AUTH_FAILED" -> "AuthError"
          [] c = "ACCESS_DENIED" -> "AccessDenied"
          [] c = "CREDENTIAL_NOT_FOUND" -> "CredentialNotFound"
          [] c = "VAULT_LOCKED" -> "VaultLocked"
          [] c = "LEASE_EXPIRED" -> "LeaseExpired"
          [] c = "RATE_LIMITED" -> "RateLimited"
          [] OTHER -> "SessionExpired"]

\* VaultError(message): an exception of the base class, which has no code
VaultError(message) ==
    Raised("VaultError", message, Absent, Absent, Absent, Absent, Absent)

\* d.get(key, default) for a value that may be missing
Get(v, default) == IF v = Absent THEN default ELSE v

EmptyMapping == "{}"

\* the "error" member of a response: missing, null, a string, a mapping, or
\* anything else (a number)
NoError == [t |-> "absent", s |-> Absent, code |-> Absent, message |-> Absent,
            detail |-> Absent, suggestion |-> Absent, docs_url |-> Absent,
            context |-> Absent]

raise_on_error_generic(resp) ==
    LET err == resp.error IN
    CASE err.t \in {"absent", "null"} -> NotRaised
      [] err.t = "str" -> VaultError(err.s)
      [] err.t = "dict" ->
            Raised("VaultError", Get(err.message, "Unknown error"),
                   Get(err.code, "INTERNAL_ERROR"), err.detail, err.suggestion,
                   err.docs_url, Get(err.context, EmptyMapping))
      [] OTHER -> Raised("AttributeError", Absent, Absent, Absent, Absent, Absent, Absent)

raise_on_error(resp) ==
    LET err == resp.error IN
    CASE err.t \in {"absent", "null"} -> NotRaised
      [] err.t = "str" -> VaultError(err.s)
      [] err.t = "dict" ->
            LET code == Get(err.code, "INTERNAL_ERROR")
                cls == IF code \in DOMAIN CODE_TO_EXCEPTION
                       THEN CODE_TO_EXCEPTION[code]
                       ELSE "VaultError"
            IN Raised(cls, Get(err.message, "Unknown error"), code, err.detail,
                      err.suggestion, err.docs_url, Get(err.context, EmptyMapping))
      [] OTHER -> Raised("AttributeError", Absent, Absent, Absent, Absent, Absent, Absent)

\* _call once the response is read: the exception, or the result returned
call_returns(resp) ==
    LET e == raise_on_error(resp) IN
    [raised |-> e, result |-> IF e.cls = "none" THEN Get(resp.result, EmptyMapping) ELSE Absent]

-----------------------------------------------------------------------------
(* Reading a trace *)

IsSend(e) == e.ev = "send"

\* the request frames an operation wrote, in order
Sends(tr) == SelectSeq(tr, IsSend)

IsReleaseCall(e) == e.ev = "call" /\ e.method = "release_lease"

RECURSIVE Args(_)
Args(tr) == IF tr = <<>> THEN <<>> ELSE <<Head(tr).arg>> \o Args(Tail(tr))

\* the lease ids release_lease was called for, in order
Attempted(tr) == Args(SelectSeq(tr, IsReleaseCall))

RpcOps == {"retrieve", "retrieve_raw", "list", "use", "release_lease"}

-----------------------------------------------------------------------------
(* close *)

\* C1: every close calls release_lease for every lease id that is tracked
\* when it starts, in list order, however the earlier releases ended.
C1_CloseAttemptsEveryLease ==
    [][last'.op = "close" => Attempted(trace') = _leases]_vars

\* C2: a close that starts on an open transport ends with that transport
\* closed, _sock and the session identifier cleared, however the releases
\* ended, and the transport is closed after every tracked lease was attempted.
C2_CloseClosesTransport ==
    [][(last'.op = "close" /\ _sock # NoSock /\ socks[_sock] \in {"open", "broken"}) =>
          /\ socks'[_sock] = "closed"
          /\ _sock' = NoSock
          /\ _session_id' = None
          /\ Attempted(trace') = _leases
          /\ trace'[Len(trace')].ev = "close"]_vars

\* C3: a close directly after a close raises nothing, writes no request and
\* changes no field of the Session.
C3_CloseIdempotent ==
    [][(last.op = "close" /\ last'.op = "close") =>
          /\ last'.raised = "none"
          /\ Sends(trace') = <<>>
          /\ UNCHANGED <<_sock, _session_id, _req_id, _leases>>]_vars

-----------------------------------------------------------------------------
(* leases *)

\* C4: after a successful retrieve or retrieve_raw the lease id of the
\* result is in _leases exactly once; after a successful release_lease the
\* released id is not in _leases.
C4_LeaseLifecycle ==
    /\ (last.op \in {"retrieve", "retrieve_raw"} /\ last.raised = "none") =>
           Count(_leases, last.result.lease_id) = 1
    /\ (last.op = "release_lease" /\ last.raised = "none") =>
           ~Contains(_leases, last.arg)

-----------------------------------------------------------------------------
(* connect *)

\* connect made socket.connect succeed and went on to the handshake
HandshakeRan == last.op = "connect" /\ trace # <<>> /\ trace[1].ev = "open"

\* C7: after a connect whose handshake raised (key resolution, authenticate,
\* challenge_response, or authenticated false or absent), the session
\* identifier is not set.
C7_FailedConnectNotAuthenticated ==
    (HandshakeRan /\ last.raised # "none") => _session_id = None

\* C8: after a connect whose handshake raised, the socket that connect opened
\* is closed and the Session holds no socket.
C8_FailedHandshakeClosesTransport ==
    (HandshakeRan /\ last.raised # "none") =>
        /\ _sock = NoSock
        /\ socks[trace[1].sock] = "closed"

\* the Session has no established connection: no socket, or one that
\* socket.connect never connected
NoConnection == _sock = NoSock \/ socks[_sock] = "unconnected"

\* C9: without an established connection every RPC operation raises the
\* not-connected error, writes no request, consumes no request id and leaves
\* the lease list alone.
C9_NotConnectedRejected ==
    [][(NoConnection /\ last'.op \in RpcOps) =>
          /\ last'.raised = "NotConnected"
          /\ Sends(trace') = <<>>
          /\ _req_id' = _req_id
          /\ _leases' = _leases]_vars

-----------------------------------------------------------------------------
(* use and list *)

\* C5: use and list leave the lease list exactly as it was, whatever the
\* server replied.
C5_UseListKeepLeases ==
    [][last'.op \in {"use", "list"} => _leases' = _leases]_vars

\* use returned a result that carries a lease_id the Session does not track,
\* while it tracks another one
C5_Witness ==
    /\ last.op = "use"
    /\ last.raised = "none"
    /\ last.result.lease_id = "L1"
    /\ _leases = <<"L2">>

-----------------------------------------------------------------------------
(* request ids *)

StrictlyIncreasing(seq) == \A i \in 1..(Len(seq) - 1) : seq[i] < seq[i + 1]

\* C6 as claimed: on every connection the handshake's authenticate request
\* has id 1 and the ids written are strictly increasing.
C6_IdsRestartPerConnection ==
    /\ \A i \in 1..Len(trace) :
          (trace[i].ev = "send" /\ trace[i].method = "authenticate") => trace[i].id = 1
    /\ StrictlyIncreasing(wire)

\* C6 as amended: the counter belongs to the Session.  Every request takes
\* the value that follows the last one handed out, on whichever connection
\* that was; the counter is never reset.  So on each connection the ids are
\* at least 1, strictly increasing and never used twice, and the handshake of
\* a connect takes the ids _req_id + 1 and _req_id + 2.
C6_IdsPerSession ==
    [][LET sent == Sends(trace') IN
          /\ _req_id' >= _req_id
          /\ \A i \in 1..Len(sent) :
                /\ sent[i].id > _req_id
                /\ sent[i].id <= _req_id'
                /\ sent[i].id >= 1
          /\ \A i \in 1..(Len(sent) - 1) : sent[i + 1].id = sent[i].id + 1
          /\ (last'.op = "connect" /\ sent # <<>>) =>
                (sent[1].method = "authenticate" /\ sent[1].id = _req_id + 1)
          /\ StrictlyIncreasing(wire')]_vars

\* a second connection whose handshake was written with ids above 1
C6_Witness ==
    /\ last.op = "connect"
    /\ last.raised = "none"
    /\ _sock = 2
    /\ socks[1] = "closed"
    /\ Len(wire) = 2
    /\ wire[1] > 1

-----------------------------------------------------------------------------
(* handshake *)

\* C10: in a connect, a challenge_response request is written only directly
\* after the authenticate response was read, that response was a result with
\* a session_id, and the request carries that session_id; nothing is written
\* after it; connect returns only after a challenge_response result with
\* authenticated true.
C10_HandshakeOrder ==
    last.op = "connect" =>
        LET sent == Sends(trace) IN
        /\ \A i \in 1..Len(trace) :
              (trace[i].ev = "send" /\ trace[i].method = "challenge_response") =>
                 /\ i >= 3
                 /\ trace[i - 1].ev = "call"
                 /\ trace[i - 2].ev = "recv"
                 /\ trace[i - 2].method = "authenticate"
                 /\ trace[i - 2].arg = "result"
                 /\ trace[i - 2].result.session_id \in SessionIds
                 /\ trace[i].arg = trace[i - 2].result.session_id
                 /\ trace[i].sock = trace[i - 2].sock
        /\ Len(sent) <= 2
        /\ \A i \in 1..Len(sent) :
              sent[i].method = IF i = 1 THEN "authenticate" ELSE "challenge_response"
        /\ last.raised = "none" =>
              /\ Len(sent) = 2
              /\ trace[Len(trace)].ev = "recv"
              /\ trace[Len(trace)].method = "challenge_response"
              /\ trace[Len(trace)].result.authenticated = "true"

\* a reconnection that succeeded with another session identifier than the
\* one the Session held
C10_Witness ==
    /\ last.op = "connect"
    /\ last.raised = "none"
    /\ _sock = 2
    /\ _session_id = "s2"
    /\ Len(Sends(trace)) = 2
    /\ Sends(trace)[2].arg = "s2"

-----------------------------------------------------------------------------
(* connect on a connected Session, release_lease, state checks, draining *)

\* C15: after a connect, no socket that an earlier connect opened is still
\* open while _sock refers to another one.
C15_ReconnectLeavesNoTransport ==
    last.op = "connect" =>
        \A n \in SockIds : socks[n] \in {"open", "broken"} => n = _sock

\* C16: a release_lease that returns has sent its request and has taken one
\* occurrence of the id out of _leases if there was one, leaving the other
\* entries alone; a release_lease that raises leaves _leases as it was.
C16_ReleaseOnlyOnSuccess ==
    [][last'.op = "release_lease" =>
          IF last'.raised = "none"
          THEN /\ Len(Sends(trace')) = 1
               /\ Sends(trace')[1].method = "release_lease"
               /\ Sends(trace')[1].arg = last'.arg
               /\ Count(_leases', last'.arg) =
                     IF Contains(_leases, last'.arg)
                     THEN Count(_leases, last'.arg) - 1
                     ELSE 0
               /\ \A l \in LeaseIds \ {last'.arg} : Count(_leases', l) = Count(_leases, l)
               /\ ~Contains(_leases, last'.arg) => _leases' = _leases
          ELSE _leases' = _leases]_vars

\* a release_lease the server refused, for a lease that is tracked
C16_Witness ==
    /\ last.op = "release_lease"
    /\ last.raised = "ServerError"
    /\ Contains(_leases, last.arg)
    /\ Len(Sends(trace)) = 1

\* the Session is Disconnected, or in the state a connect that raised left
NotAuthenticated == _sock = NoSock \/ (last.op = "connect" /\ last.raised # "none")

\* C19: retrieve, retrieve_raw, list and use write a request only when the
\* Session is Authenticated: called on a Session that is Disconnected, or
\* left by a connect that raised, they write none.
C19_RejectedUnlessAuthenticated ==
    [][(NotAuthenticated /\ last'.op \in {"retrieve", "retrieve_raw", "list", "use"}) =>
          Sends(trace') = <<>>]_vars

\* C20: after a close that returned, no lease id is tracked.
C20_CloseDrainsLeases ==
    (last.op = "close" /\ last.raised = "none") => _leases = <<>>

-----------------------------------------------------------------------------
(* protocol.py on its own: each function applied once to an input *)

MaxKeys == 2
MaxBody == 2

Keys == {<<97>>, <<105, 100>>, <<107>>}            \* "a", "id", "k"
Values == {JInt(0), JInt(12), JStr(<<120>>)}       \* 0, 12, "x"

RECURSIVE Dicts(_)
Dicts(n) ==
    IF n = 0 THEN {<<>>}
    ELSE LET less == Dicts(n - 1) IN
         less \cup {Append(d, Item(k, v)) :
                        d \in {e \in less : Len(e) = n - 1},
                        k \in Keys, v \in Values}

DistinctKeys(d) == \A i, j \in 1..Len(d) : d[i].k = d[j].k => i = j

\* the payloads: mappings from string keys to values
Payloads == {JObj(d) : d \in {e \in Dicts(MaxKeys) : DistinctKeys(e)}}
SmallPayloads == {p \in Payloads : Len(p.items) <= 1}

\* what may follow a frame in a buffer
Trailers ==
    {NoBytes, Bytes(<<0>>), Bytes(<<0, 0, 0, 2, 123>>), Spaces(3)}
        \cup {encode_frame(b) : b \in SmallPayloads}

HeaderBytes == {0, 1, 2, 64}
BodyBytes == {123, 125, 49, 34}                    \* { } 1 "
Pads == {0, MAX_MESSAGE_SIZE - 2, MAX_MESSAGE_SIZE - 1}

SeqsUpTo(S, n) == UNION {[1..k -> S] : k \in 0..n}

\* buffers and streams: a header or part of one, then a body or part of one
Buffers ==
    {Bytes(h) : h \in SeqsUpTo(HeaderBytes, 3)}
        \cup {Concat(Bytes(h \o b), Spaces(p)) :
                  h \in [1..4 -> HeaderBytes], b \in SeqsUpTo(BodyBytes, MaxBody),
                  p \in Pads}

ErrorCodes == DOMAIN CODE_TO_EXCEPTION \cup {"INTERNAL_ERROR", "NEW_CODE", Absent}

Errors ==
    {NoError, [NoError EXCEPT !.t = "null"], [NoError EXCEPT !.t = "int"],
     [NoError EXCEPT !.t = "str", !.s = "msg"]}
        \cup {[t |-> "dict", s |-> Absent, code |-> c, message |-> m, detail |-> d,
               suggestion |-> g, docs_url |-> u, context |-> x] :
                  c \in ErrorCodes, m \in {Absent, "m"}, d \in {Absent, "d"},
                  g \in {Absent, "s"}, u \in {Absent, "u"}, x \in {Absent, "ctx"}}

Responses == {[error |-> e, result |-> r] : e \in Errors, r \in {Absent, "result"}}

CodecInit ==
    /\ Constructed
    /\ net = NetIdle
    /\ \/ \E a \in Payloads, r \in Trailers :
              codec = [fn |-> "payload", a |-> a, r |-> r]
       \/ \E data \in Buffers : codec = [fn |-> "buffer", data |-> data]
       \/ \E data \in Buffers : codec = [fn |-> "stream", data |-> data]
       \/ \E resp \in Responses : codec = [fn |-> "response", resp |-> resp]

Idle == UNCHANGED <<_sock, _session_id, _req_id, _leases, socks, wire, last, trace, net>>

\* decode_frame(encode_frame(a) + r)
EncodeDecode ==
    /\ codec.fn = "payload"
    /\ codec' = [fn |-> "encode_decode", a |-> codec.a, r |-> codec.r,
                 out |-> decode_frame(Concat(encode_frame(codec.a), codec.r))]
    /\ Idle

\* decode_frame(data)
DecodeFrame ==
    /\ codec.fn = "buffer"
    /\ codec' = [fn |-> "decode_frame", data |-> codec.data, out |-> decode_frame(codec.data)]
    /\ Idle

\* recv(sock) on a stream that carries data and is then closed by the peer
Recv ==
    /\ codec.fn = "stream"
    /\ codec' = [fn |-> "recv", data |-> codec.data, out |-> recv(codec.data)]
    /\ Idle

\* raise_on_error(resp) as _call applies it
RaiseOnError ==
    /\ codec.fn = "response"
    /\ codec' = [fn |-> "raise_on_error", resp |-> codec.resp, out |-> call_returns(codec.resp)]
    /\ Idle

CodecNext == EncodeDecode \/ DecodeFrame \/ Recv \/ RaiseOnError

SpecCodec == CodecInit /\ [][CodecNext]_vars

\* C11: a response without an error raises nothing and _call returns its
\* result, or an empty mapping when it has none; a string error raises
\* VaultError with that message and no code; a mapping raises the class the
\* table gives its code, VaultError for any other code, and the exception
\* carries the code, message, detail and suggestion of the mapping.
C11_ResponseClassification ==
    codec.fn = "raise_on_error" =>
        LET err == codec.resp.error
            e == codec.out.raised
        IN /\ err.t = "absent" =>
                /\ e.cls = "none"
                /\ codec.out.result =
                       IF codec.resp.result = Absent THEN EmptyMapping ELSE codec.resp.result
           /\ err.t = "str" =>
                /\ e.cls = "VaultError"
                /\ e.message = err.s
                /\ e.code = Absent
           /\ err.t = "dict" =>
                /\ e.cls = CASE err.code = "AUTH_FAILED" -> "AuthError"
                             [] err.code = "ACCESS_DENIED" -> "AccessDenied"
                             [] err.code = "CREDENTIAL_NOT_FOUND" -> "CredentialNotFound"
                             [] err.code = "VAULT_LOCKED" -> "VaultLocked"
                             [] err.code = "LEASE_EXPIRED" -> "LeaseExpired"
                             [] err.code = "RATE_LIMITED" -> "RateLimited"
                             [] err.code = "SESSION_EXPIRED" -> "SessionExpired"
                             [] OTHER -> "VaultError"
                /\ err.code # Absent => e.code = err.code
                /\ err.message # Absent => e.message = err.message
                /\ e.detail = err.detail
                /\ e.suggestion = err.suggestion

C11_Witness ==
    /\ codec.fn = "raise_on_error"
    /\ codec.resp.error.t = "dict"
    /\ codec.resp.error.code = "ACCESS_DENIED"
    /\ codec.resp.error.detail = "d"
    /\ codec.out.raised.cls = "AccessDenied"

\* C12: decode_frame(encode_frame(a) + r) returns a and r, and when r is
\* encode_frame(b) the remainder decodes to b with nothing left.
C12_RoundTrip ==
    codec.fn = "encode_decode" =>
        /\ codec.out.raised = "none"
        /\ JEq(codec.out.obj, codec.a)
        /\ codec.out.rest = codec.r
        /\ \A b \in SmallPayloads :
              codec.r = encode_frame(b) =>
                  LET again == decode_frame(codec.out.rest)
                  IN /\ again.raised = "none"
                     /\ JEq(again.obj, b)
                     /\ again.rest = NoBytes

C12_Witness ==
    /\ codec.fn = "encode_decode"
    /\ Len(codec.a.items) = 2
    /\ \E b \in SmallPayloads : Len(b.items) = 1 /\ codec.r = encode_frame(b)
    /\ codec.out.raised = "none"

\* the length a buffer of four bytes or more declares
Declared(data) == unpack(Octets(Slice(data, 0, 4)))

\* C13: decode_frame raises the incomplete-header error on fewer than 4
\* bytes, the incomplete-body error on 4 bytes or more but fewer than 4 + the
\* declared length, returns no payload in either case, and returns only when
\* 4 + the declared length bytes are there.
C13_DecodeErrors ==
    codec.fn = "decode_frame" =>
        LET n == BLen(codec.data) IN
        /\ n < 4 => codec.out.raised = "IncompleteHeader"
        /\ (n >= 4 /\ n < 4 + Declared(codec.data)) => codec.out.raised = "IncompleteBody"
        /\ codec.out.raised \in {"IncompleteHeader", "IncompleteBody"} =>
              codec.out.obj = Nothing
        /\ codec.out.raised = "none" => (n >= 4 /\ n >= 4 + Declared(codec.data))

C13_Witness ==
    /\ codec.fn = "decode_frame"
    /\ BLen(codec.data) > 4
    /\ codec.out.raised = "IncompleteBody"

\* C14: no frame reader reads or parses a body longer than MAX_MESSAGE_SIZE:
\* a frame that is there in full and declares a length above it is answered
\* with the too-large error.
C14_NoOversizeBody ==
    codec.fn \in {"recv", "decode_frame"} =>
        /\ codec.out.body <= MAX_MESSAGE_SIZE
        /\ (/\ BLen(codec.data) >= 4
            /\ Declared(codec.data) > MAX_MESSAGE_SIZE
            /\ BLen(codec.data) >= 4 + Declared(codec.data)) =>
              codec.out.raised = "TooLarge"

-----------------------------------------------------------------------------
(* _call step by step on one connection: client.py 110-120 with send and   *)
(* recv of protocol.py, for callers that share a connected Session, and a  *)
(* server that answers the requests in the order they arrive.  last and    *)
(* trace describe whole operations and stay as connect left them.          *)

MaxCalls == 2

Callers == {"t1", "t2"}
Methods == {"list", "retrieve_raw"}

\* a Session not yet connected
NewSession ==
    [sock |-> NoSock, session_id |-> None, req_id |-> 0, leases |-> <<>>,
     socks |-> [n \in SockIds |-> "unused"], wire |-> <<>>]

NoReturn ==
    [caller |-> "none", method |-> "none", id |-> 0, raised |-> "none", resp_id |-> 0,
     owner |-> "none"]

NetStart ==
    [on |-> TRUE,
     pc |-> [t \in Callers |-> "idle"],
     method |-> [t \in Callers |-> "none"],
     tmp |-> [t \in Callers |-> 0],
     id |-> [t \in Callers |-> 0],
     need |-> [t \in Callers |-> 0],
     owner |-> [t \in Callers |-> "none"],   \* whose request the frame being read answers
     calls |-> 0,                \* calls entered
     requests |-> <<>>,          \* frames written that the server has not answered
     stream |-> NoBytes,         \* bytes from the server that no one has read
     frames |-> <<>>,            \* the frames those bytes belong to: size, whose request
     eaten |-> 0,                \* how much of the first of them is read already
     big |-> FALSE,              \* the server has sent a frame above MAX_MESSAGE_SIZE
     overlap |-> FALSE,          \* a call was entered while another was running
     aligned |-> TRUE,           \* every recv so far started at the start of a frame
     ret |-> NoReturn]           \* how the call that ended last ended

\* the ways connect returns on a new Session
Connections ==
    {o \in {connect(NewSession, TRUE, "key", r1, r2) :
                r1 \in AuthenticateReplies, r2 \in ChallengeReplies} :
        o.feasible /\ o.raised = "none"}

\* a Session that connect has returned from
WireInit ==
    /\ \E o \in Connections :
          /\ _sock = o.m.sock
          /\ _session_id = o.m.session_id
          /\ _req_id = o.m.req_id
          /\ _leases = o.m.leases
          /\ socks = o.m.socks
          /\ wire = o.m.wire
          /\ last = [op |-> "connect", arg |-> None, raised |-> o.raised, result |-> o.result]
          /\ trace = o.trace
    /\ codec = CodecIdle
    /\ net = NetStart

Others == UNCHANGED <<_sock, _session_id, socks, last, trace, codec>>

\* the member of a parsed object, Nothing when it has none
Member(obj, key) ==
    IF \E j \in 1..Len(obj.items) : obj.items[j].k = key
    THEN obj.items[CHOOSE j \in 1..Len(obj.items) : obj.items[j].k = key].v
    ELSE Nothing

K_id == <<105, 100>>                                       \* "id"
K_result == <<114, 101, 115, 117, 108, 116>>               \* "result"
K_error == <<101, 114, 114, 111, 114>>                     \* "error"
K_lease_id == <<108, 101, 97, 115, 101, 95, 105, 100>>     \* "lease_id"

\* the lease the server grants for request id
Lease(id) == <<76>> \o Digits(id)                          \* "L<id>"

\* what the server may answer to a request
ResultFrame(req) ==
    encode_frame(JObj(<<Item(K_id, JInt(req.id)),
                        Item(K_result,
                             IF req.method = "retrieve_raw"
                             THEN JObj(<<Item(K_lease_id, JStr(Lease(req.id)))>>)
                             ELSE JObj(<<>>))>>))

ErrorFrame(req) ==
    encode_frame(JObj(<<Item(K_id, JInt(req.id)), Item(K_error, JStr(<<110, 111>>))>>))

\* a response of MAX_MESSAGE_SIZE + 1 bytes
BigFrame(req) ==
    LET text == dumps(JObj(<<Item(K_id, JInt(req.id))>>)) IN
    Concat(Bytes(pack(MAX_MESSAGE_SIZE + 1) \o text),
           Spaces(MAX_MESSAGE_SIZE + 1 - Len(text)))

\* n bytes further in the frames on the stream
RECURSIVE Advance(_, _, _)
Advance(frames, eaten, n) ==
    IF frames # <<>> /\ eaten + n >= Head(frames).size
    THEN Advance(Tail(frames), 0, eaten + n - Head(frames).size)
    ELSE [frames |-> frames, eaten |-> eaten + n]

Running(t) == net.pc[t] # "idle"

\* a caller enters _call (the socket is there)
Enter(t) ==
    /\ net.on
    /\ ~Running(t)
    /\ _req_id < MaxReq
    /\ net.calls < MaxCalls
    /\ _sock # NoSock
    /\ \E method \in Methods :
          net' = [net EXCEPT !.pc[t] = "load", !.method[t] = method, !.calls = @ + 1,
                             !.overlap = @ \/ \E u \in Callers \ {t} : Running(u)]
    /\ UNCHANGED <<_req_id, _leases, wire>>
    /\ Others

\* _next_id: self._req_id += 1 reads the field ...
Load(t) ==
    /\ net.on
    /\ net.pc[t] = "load"
    /\ net' = [net EXCEPT !.pc[t] = "store", !.tmp[t] = _req_id]
    /\ UNCHANGED <<_req_id, _leases, wire>>
    /\ Others

\* ... and writes it;
Store(t) ==
    /\ net.on
    /\ net.pc[t] = "store"
    /\ _req_id' = net.tmp[t] + 1
    /\ net' = [net EXCEPT !.pc[t] = "read"]
    /\ UNCHANGED <<_leases, wire>>
    /\ Others

\* return self._req_id reads it again
ReadId(t) ==
    /\ net.on
    /\ net.pc[t] = "read"
    /\ net' = [net EXCEPT !.pc[t] = "send", !.id[t] = _req_id]
    /\ UNCHANGED <<_req_id, _leases, wire>>
    /\ Others

Send(t) ==
    /\ net.on
    /\ net.pc[t] = "send"
    /\ net' = [net EXCEPT !.pc[t] = "header",
                          !.requests = send(@, [id |-> net.id[t], method |-> net.method[t],
                                                caller |-> t])]
    /\ wire' = Append(wire, net.id[t])
    /\ UNCHANGED <<_req_id, _leases>>
    /\ Others

\* the call of t is over
Returned(t, raised, resp_id) ==
    [caller |-> t, method |-> net.method[t], id |-> net.id[t], raised |-> raised,
     resp_id |-> resp_id, owner |-> net.owner[t]]

\* the caller is out of _call
Leave(n, t) ==
    [n EXCEPT !.pc[t] = "idle", !.method[t] = "none", !.tmp[t] = 0, !.id[t] = 0,
              !.need[t] = 0, !.owner[t] = "none"]

\* recv: the four bytes of the length, once they are there
RecvHeader(t) ==
    /\ net.on
    /\ net.pc[t] = "header"
    /\ BLen(net.stream) >= 4
    /\ LET h == _read_exact(net.stream, 4)
           length == unpack(h.bytes.head)
           g == Advance(net.frames, net.eaten, 4)
           read == [net EXCEPT !.stream = h.rest, !.frames = g.frames, !.eaten = g.eaten,
                               !.aligned = @ /\ net.eaten = 0]
       IN net' = IF length > MAX_MESSAGE_SIZE
                 THEN Leave([read EXCEPT !.ret = Returned(t, "TooLarge", 0)], t)
                 ELSE [read EXCEPT !.pc[t] = "body", !.need[t] = length,
                                   !.owner[t] = IF net.eaten = 0 /\ net.frames # <<>>
                                                THEN Head(net.frames).owner
                                                ELSE "none"]
    /\ UNCHANGED <<_req_id, _leases, wire>>
    /\ Others

\* recv: the body, once it is there; then raise_on_error, the result, and
\* for retrieve_raw the lease id of the result
RecvBody(t) ==
    /\ net.on
    /\ net.pc[t] = "body"
    /\ BLen(net.stream) >= net.need[t]
    /\ LET b == _read_exact(net.stream, net.need[t])
           g == Advance(net.frames, net.eaten, net.need[t])
           read == Leave([net EXCEPT !.stream = b.rest, !.frames = g.frames,
                                     !.eaten = g.eaten], t)
           resp == loads(b.bytes)
           rid == IF resp.ok /\ Member(resp.v, K_id).t = "int" THEN Member(resp.v, K_id).n ELSE 0
           result == Member(resp.v, K_result)
       IN IF ~resp.ok
          THEN /\ net' = [read EXCEPT !.ret = Returned(t, "JSONDecodeError", 0)]
               /\ UNCHANGED _leases
          ELSE IF resp.v.t # "obj"
          THEN /\ net' = [read EXCEPT !.ret = Returned(t, "AttributeError", 0)]
               /\ UNCHANGED _leases
          ELSE IF Member(resp.v, K_error) # Nothing
          THEN /\ net' = [read EXCEPT !.ret = Returned(t, "ServerError", rid)]
               /\ UNCHANGED _leases
          ELSE IF net.method[t] = "list"
          THEN /\ net' = [read EXCEPT !.ret = Returned(t, "none", rid)]
               /\ UNCHANGED _leases
          ELSE IF Member(result, K_lease_id) = Nothing
          THEN /\ net' = [read EXCEPT !.ret = Returned(t, "KeyError", rid)]
               /\ UNCHANGED _leases
          ELSE /\ net' = [read EXCEPT !.ret = Returned(t, "none", rid)]
               /\ _leases' = Append(_leases, Member(result, K_lease_id).s)
    /\ UNCHANGED <<_req_id, wire>>
    /\ Others

\* the server answers the request that arrived first, with one frame
Answer ==
    /\ net.on
    /\ net.requests # <<>>
    /\ LET req == Head(net.requests) IN
       \E frame \in {ResultFrame(req), ErrorFrame(req)}
                       \cup (IF net.big THEN {} ELSE {BigFrame(req)}) :
          net' = [net EXCEPT !.requests = Tail(@),
                             !.stream = Concat(@, frame),
                             !.frames = Append(@, [size |-> BLen(frame), owner |-> req.caller]),
                             !.big = @ \/ frame.pad > 0]
    /\ UNCHANGED <<_req_id, _leases, wire>>
    /\ Others

WireNext ==
    \/ \E t \in Callers : Enter(t)
    \/ \E t \in Callers : Load(t)
    \/ \E t \in Callers : Store(t)
    \/ \E t \in Callers : ReadId(t)
    \/ \E t \in Callers : Send(t)
    \/ \E t \in Callers : RecvHeader(t)
    \/ \E t \in Callers : RecvBody(t)
    \/ Answer

SpecWire == WireInit /\ [][WireNext]_vars

\* C17: when calls do not overlap, every recv starts where a frame starts.
C17_ReadsStartAtFrameBoundary ==
    (net.on /\ ~net.overlap) => net.aligned

\* C18: when calls do not overlap, a call that returns was handed the
\* response to its own request, which carries the id of that request.
C18_SerializedCallsGetOwnResponse ==
    (net.on /\ ~net.overlap /\ net.ret.raised = "none" /\ net.ret.caller # "none") =>
        /\ net.ret.owner = net.ret.caller
        /\ net.ret.resp_id = net.ret.id

\* two calls overlapped, and a retrieve_raw returned with the response to the
\* other caller's request and tracks the lease of that response
C18_Witness ==
    /\ net.on
    /\ net.overlap
    /\ net.ret.raised = "none"
    /\ net.ret.method = "retrieve_raw"
    /\ net.ret.resp_id # net.ret.id
    /\ net.ret.owner \in Callers \ {net.ret.caller}
    /\ _leases # <<>>
    /\ _leases[Len(_leases)] = Lease(net.ret.resp_id)

====
